---- MODULE Spec2Model ----
(***************************************************************************)
(* Model of fatiando.inversion.pgrav3d: the module-level session cache     *)
(* (_jacobian, _mesh, _data, _data_vector), the operations on it (clear,   *)
(* solve, calc_adjustment, residuals, the Jacobian and first-derivative    *)
(* builders) and the pure data-vector and finite-difference assemblers.    *)
(*                                                                         *)
(* Python values are modelled as follows.                                  *)
(*   None / a value v      : the sequences <<>> and <<v>> (None, Some(v))   *)
(*   a dict of grids       : [keys |-> the keys in dict iteration order,    *)
(*                            grid |-> [key |-> grid record]]               *)
(*   a grid                : a record with fields x, y, z and, when the     *)
(*                           observed values are present, value            *)
(*   a mesh (numpy array)  : [shape |-> <<nz, ny, nx>>,                     *)
(*                            cells |-> the cells in ravel() order]         *)
(*   a raised exception    : the outcome string of the call                 *)
(***************************************************************************)
EXTENDS Integers, Sequences, FiniteSets

VARIABLES _jacobian, _mesh, _data, _data_vector, last, npts, dv, fd, fm, lm

vars == <<_jacobian, _mesh, _data, _data_vector, last, npts, dv, fd, fm, lm>>

session == <<_jacobian, _mesh, _data, _data_vector>>

(***************************************************************************)
(* Bounds of the model.                                                    *)
(***************************************************************************)
\* observation points per component in the session specification
MaxPts == 2
\* points per component and components per set in the data-vector specification
MaxVecPts == 2
MaxVecComps == 3
\* largest nx, ny, nz in the first-derivative specification
MaxDim == 4
\* largest nx, ny, nz in the mesh-filling specification
MaxFillDim == 2
\* largest max_it, max_steps and goal-function value in the solver specification
MaxIt == 3
MaxSteps == 2
MaxGoal == 8

None == <<>>
Some(v) == <<v>>
Get(o) == o[1]

Min(a, b) == IF a < b THEN a ELSE b

RECURSIVE SumSeq(_)
SumSeq(s) == IF s = <<>> THEN 0 ELSE Head(s) + SumSeq(Tail(s))

(***************************************************************************)
(* The seven components in canonical order.                                *)
(***************************************************************************)
Fields == <<"gz", "gxx", "gxy", "gxz", "gyy", "gyz", "gzz">>

NumFields == Len(Fields)

FieldSet == {Fields[i] : i \in 1..NumFields}

FieldIndex(f) == CHOOSE i \in 1..NumFields : Fields[i] = f

\* `key in data.keys()`
InKeys(key, data) == \E i \in 1..Len(data.keys) : data.keys[i] = key

HasValue(g) == "value" \in DOMAIN g

\* `del g['value']`
DelValue(g) == [k \in DOMAIN g \ {"value"} |-> g[k]]

\* `g['value'] = v`
SetValue(g, v) == [k \in DOMAIN g \cup {"value"} |-> IF k = "value" THEN v ELSE g[k]]

(***************************************************************************)
(* External collaborators: the prism kernels, the mesh constructor and     *)
(* the data loader.  The kernel is a pure function, linear in the density, *)
(* that tells components, cells and observation points apart.              *)
(***************************************************************************)
Kernel(field, dens, cell, x, y, z) ==
    dens * (FieldIndex(field) + 10 * (x + 3 * y + 9 * z)
            + 100 * (cell.x1 + 4 * cell.y1 + 16 * cell.z1))

\* flattened index (1-based) of cell (i, j, k), x fastest
Cell(i, j, k) ==
    [x1 |-> i, x2 |-> i + 1, y1 |-> j, y2 |-> j + 1, z1 |-> k, z2 |-> k + 1,
     value |-> 0]

PrismMesh(nz, ny, nx) ==
    [shape |-> <<nz, ny, nx>>,
     cells |-> [p \in 1..(nx * ny * nz) |->
                  Cell((p - 1) % nx, ((p - 1) \div nx) % ny, (p - 1) \div (nx * ny))]]

MeshSize(mesh) == Len(mesh.cells)

KeyCode(k) == IF k \in FieldSet THEN FieldIndex(k) ELSE 0

\* a grid of n points of component f, with or without observed values
Grid(f, n, withValue) ==
    LET coords == [x |-> [i \in 1..n |-> i],
                   y |-> [i \in 1..n |-> 0],
                   z |-> [i \in 1..n |-> 0]]
    IN  IF withValue
        THEN SetValue(coords, [i \in 1..n |-> 10 * KeyCode(f) + i])
        ELSE coords

\* every ordering of the set of keys K as a key list
KeyOrders(K) ==
    {s \in [1..Cardinality(K) -> K] : \A i, j \in 1..Cardinality(K) : s[i] = s[j] => i = j}

\* the observation sets over the key universe U with at most maxc components,
\* each with a number of points in P; withMissing allows components without
\* observed values
ObservationSet(ks, n, v) ==
    [keys |-> ks, grid |-> [k \in DOMAIN n |-> Grid(k, n[k], v[k])]]

ObservationSets(U, maxc, P, withMissing) ==
    LET flags == IF withMissing THEN BOOLEAN ELSE {TRUE}
    IN  UNION {
          UNION {
            {ObservationSet(ks, n, v) : ks \in KeyOrders(K)} :
            n \in [K -> P], v \in [K -> flags]} :
          K \in {S \in SUBSET U : Cardinality(S) <= maxc}}

(***************************************************************************)
(* extract_data_vector(data, inplace).  The seven `if` blocks of the code  *)
(* run in canonical order; st carries the vector built so far, the input   *)
(* mapping as modified so far and the exception raised, if any.            *)
(***************************************************************************)
\* a block that erases the values whether asked to or not
ExtractFieldErasing(st, field, inplace) ==
    IF st.outcome # "ok" \/ ~InKeys(field, st.data) THEN st
    ELSE IF ~HasValue(st.data.grid[field]) THEN [st EXCEPT !.outcome = "KeyError"]
    ELSE [st EXCEPT !.vec = @ \o st.data.grid[field].value,
                    !.data.grid[field] = DelValue(@)]

ExtractField(st, field, inplace) ==
    IF st.outcome # "ok" \/ ~InKeys(field, st.data) THEN st
    ELSE IF ~HasValue(st.data.grid[field]) THEN [st EXCEPT !.outcome = "KeyError"]
    ELSE [st EXCEPT !.vec = @ \o st.data.grid[field].value,
                    !.data.grid[field] = IF inplace THEN DelValue(@) ELSE @]

\* an extraction that walks the mapping's own keys
RECURSIVE ExtractInKeyOrder(_, _, _)
ExtractInKeyOrder(st, fi, inplace) ==
    IF fi > Len(st.data.keys) THEN st
    ELSE ExtractInKeyOrder(ExtractField(st, st.data.keys[fi], inplace), fi + 1, inplace)

RECURSIVE ExtractFrom(_, _, _)
ExtractFrom(st, fi, inplace) ==
    IF fi > NumFields THEN st
    ELSE ExtractFrom(ExtractField(st, Fields[fi], inplace), fi + 1, inplace)

extract_data_vector(data, inplace) ==
    ExtractFrom([vec |-> <<>>, data |-> data, outcome |-> "ok"], 1, inplace)

(***************************************************************************)
(* _build_pgrav3d_jacobian: the rows assembled when the cache is empty.    *)
(***************************************************************************)
\* zip(x, y, z) stops at the shortest array
NumCoordinates(g) == Min(Len(g.x), Min(Len(g.y), Len(g.z)))

\* rows whose columns run through the cells backwards
FieldRowsReversed(field, mesh, g) ==
    [p \in 1..NumCoordinates(g) |->
       [c \in 1..MeshSize(mesh) |->
          Kernel(field, 1, mesh.cells[MeshSize(mesh) + 1 - c], g.x[p], g.y[p], g.z[p])]]

FieldRows(field, mesh, g) ==
    [p \in 1..NumCoordinates(g) |->
       [c \in 1..MeshSize(mesh) |-> Kernel(field, 1, mesh.cells[c], g.x[p], g.y[p], g.z[p])]]

RECURSIVE JacobianRowsFrom(_, _, _)
JacobianRowsFrom(fi, mesh, data) ==
    IF fi > NumFields THEN <<>>
    ELSE (IF InKeys(Fields[fi], data)
          THEN FieldRows(Fields[fi], mesh, data.grid[Fields[fi]])
          ELSE <<>>) \o JacobianRowsFrom(fi + 1, mesh, data)

AssembleJacobian(mesh, data) == JacobianRowsFrom(1, mesh, data)

\* a builder that assembles on every call
CacheIgnored(jac) == TRUE

\* the cache test of line 255
CacheEmpty(jac) == jac = None

\* the call as a whole: the outcome, the cache afterwards, the matrix returned
\* and the number of kernel invocations
BuildJacobian(jac, mesh, data) ==
    LET built(rows) == [outcome |-> "ok", jac |-> Some(rows), ret |-> Some(rows),
                        calls |-> Len(rows) * MeshSize(Get(mesh))]
    IN  IF mesh = None \/ data = None
        THEN [outcome |-> "AssertionError", jac |-> jac, ret |-> None, calls |-> 0]
        ELSE IF CacheEmpty(jac)
        THEN built(AssembleJacobian(Get(mesh), Get(data)))
        ELSE [outcome |-> "ok", jac |-> jac, ret |-> jac, calls |-> 0]

(***************************************************************************)
(* numpy.dot(jacobian, estimate) and the broadcasting subtraction of a     *)
(* list and an array, as calc_adjustment and residuals use them.           *)
(***************************************************************************)
\* an empty row list becomes an array of shape (0,), whose product with a
\* non-empty vector is a shape error
\* a product that takes every parameter for 1 (the row sums)
DotRowSums(jac, estimate) ==
    IF jac = <<>>
    THEN IF Len(estimate) = 0
         THEN [outcome |-> "ok", val |-> <<>>]
         ELSE [outcome |-> "ValueError", val |-> <<>>]
    ELSE IF Len(jac[1]) # Len(estimate)
    THEN [outcome |-> "ValueError", val |-> <<>>]
    ELSE [outcome |-> "ok",
          val |-> [i \in 1..Len(jac) |-> SumSeq([j \in 1..Len(estimate) |-> jac[i][j]])]]

Dot(jac, estimate) ==
    IF jac = <<>>
    THEN IF Len(estimate) = 0
         THEN [outcome |-> "ok", val |-> <<>>]
         ELSE [outcome |-> "ValueError", val |-> <<>>]
    ELSE IF Len(jac[1]) # Len(estimate)
    THEN [outcome |-> "ValueError", val |-> <<>>]
    ELSE [outcome |-> "ok",
          val |-> [i \in 1..Len(jac) |->
                     SumSeq([j \in 1..Len(estimate) |-> jac[i][j] * estimate[j]])]]

Subtract(a, b) ==
    IF Len(a) = Len(b)
    THEN [outcome |-> "ok", val |-> [i \in 1..Len(a) |-> a[i] - b[i]]]
    ELSE IF Len(a) = 1
    THEN [outcome |-> "ok", val |-> [i \in 1..Len(b) |-> a[1] - b[i]]]
    ELSE IF Len(b) = 1
    THEN [outcome |-> "ok", val |-> [i \in 1..Len(a) |-> a[i] - b[1]]]
    ELSE [outcome |-> "ValueError", val |-> <<>>]

(***************************************************************************)
(* calc_adjustment, grid mode: the predicted vector cut into per-component *)
(* slices in canonical order.  adjusted_grid is a shallow copy of _data,   *)
(* so the slices are stored into the grids _data itself holds.             *)
(***************************************************************************)
\* adjusted[:n] and adjusted[n:]
Take(s, n) == SubSeq(s, 1, Min(n, Len(s)))

\* a slicing that never advances (line 240 left out)
DropNothing(s, n) == s

Drop(s, n) == SubSeq(s, Min(n, Len(s)) + 1, Len(s))

SliceField(st, field) ==
    IF ~InKeys(field, st.data) THEN st
    ELSE LET ndata == Len(st.data.grid[field].x)
         IN  [data |-> [st.data EXCEPT !.grid[field] = SetValue(@, Take(st.adjusted, ndata))],
              adjusted |-> Drop(st.adjusted, ndata)]

RECURSIVE SliceFrom(_, _)
SliceFrom(st, fi) ==
    IF fi > NumFields THEN st ELSE SliceFrom(SliceField(st, Fields[fi]), fi + 1)

\* the grids after the loop of lines 232-240
AdjustedGrid(data, adjusted) == SliceFrom([data |-> data, adjusted |-> adjusted], 1).data

\* calc_adjustment after line 224: b is the result of the Jacobian build
AdjustWith(b, data, estimate, grid) ==
    LET fail(o) == [outcome |-> o, jac |-> b.jac, data |-> data, ret |-> None,
                    calls |-> b.calls]
        shape(d) ==
            IF d.outcome # "ok" THEN fail(d.outcome)
            ELSE IF grid
            THEN LET filled(g) == [outcome |-> "ok", jac |-> b.jac, data |-> Some(g),
                                   ret |-> Some(g), calls |-> b.calls]
                 IN  filled(AdjustedGrid(Get(data), d.val))
            ELSE [outcome |-> "ok", jac |-> b.jac, data |-> data, ret |-> Some(d.val),
                  calls |-> b.calls]
    IN  IF b.outcome # "ok" THEN fail(b.outcome) ELSE shape(Dot(Get(b.jac), estimate))

\* calc_adjustment(estimate, grid) on the session (jac, mesh, data)
CalcAdjustment(jac, mesh, data, estimate, grid) ==
    AdjustWith(BuildJacobian(jac, mesh, data), data, estimate, grid)

(***************************************************************************)
(* residuals(data, estimate) on the session; arg is the mapping passed.    *)
(***************************************************************************)
\* residuals after line 189: a is the result of calc_adjustment(estimate)
ResidualsWith(a, data_vector, arg) ==
    LET fail(o) == [outcome |-> o, jac |-> a.jac, ret |-> None, calls |-> a.calls]
        done(r) == IF r.outcome # "ok" THEN fail(r.outcome)
                   ELSE [outcome |-> "ok", jac |-> a.jac, ret |-> Some(r.val),
                         calls |-> a.calls]
        extracted(e) == IF e.outcome # "ok" THEN fail(e.outcome)
                        ELSE done(Subtract(e.vec, Get(a.ret)))
    IN  IF a.outcome # "ok" THEN fail(a.outcome)
        ELSE IF Len(arg.keys) = 0 THEN fail("IndexError")
        ELSE IF HasValue(arg.grid[arg.keys[1]])
        THEN extracted(extract_data_vector(arg, FALSE))
        ELSE IF data_vector = None THEN fail("AssertionError")
        ELSE done(Subtract(Get(data_vector), Get(a.ret)))

Residuals(jac, mesh, data, data_vector, arg, estimate) ==
    ResidualsWith(CalcAdjustment(jac, mesh, data, estimate, FALSE), data_vector, arg)

(***************************************************************************)
(* _build_pgrav3d_first_deriv: the three loop nests with their running     *)
(* counters deriv_i and param_i (0-based, as in the code).  A write to a   *)
(* row or column the array does not have raises IndexError, which ends     *)
(* every loop.                                                             *)
(***************************************************************************)
\* a row count that takes nx*nz for the number of pairs per z-plane
DerivNumSlip(nx, ny, nz) == (nx - 1) * ny * nz + (ny - 1) * nx * nz + (nz - 1) * nx * nz

DerivNum(nx, ny, nz) == (nx - 1) * ny * nz + (ny - 1) * nx * nz + (nz - 1) * nx * ny

Zeros(nrows, ncols) == [r \in 1..nrows |-> [c \in 1..ncols |-> 0]]

\* first_deriv[deriv_i][param_i] = 1; first_deriv[deriv_i][param_i + off] = -1;
\* deriv_i += 1; param_i += 1
WriteRow(st, off) ==
    IF st.outcome # "ok" THEN st
    ELSE IF st.deriv_i >= Len(st.first_deriv)
            \/ st.param_i + off >= Len(st.first_deriv[st.deriv_i + 1])
    THEN [st EXCEPT !.outcome = "IndexError"]
    ELSE [st EXCEPT !.first_deriv[st.deriv_i + 1][st.param_i + 1] = 1,
                    !.first_deriv[st.deriv_i + 1][st.param_i + off + 1] = -1,
                    !.deriv_i = @ + 1,
                    !.param_i = @ + 1]

Skip(st, n) == [st EXCEPT !.param_i = @ + n]

RECURSIVE LoopI(_, _, _, _)
LoopI(st, i, ni, off) ==
    IF st.outcome # "ok" \/ i >= ni THEN st ELSE LoopI(WriteRow(st, off), i + 1, ni, off)

RECURSIVE LoopJ(_, _, _, _, _, _)
LoopJ(st, j, nj, ni, off, afterI) ==
    IF st.outcome # "ok" \/ j >= nj THEN st
    ELSE LoopJ(Skip(LoopI(st, 0, ni, off), afterI), j + 1, nj, ni, off, afterI)

RECURSIVE LoopK(_, _, _, _, _, _, _, _)
LoopK(st, k, nk, nj, ni, off, afterI, afterJ) ==
    IF st.outcome # "ok" \/ k >= nk THEN st
    ELSE LoopK(Skip(LoopJ(st, 0, nj, ni, off, afterI), afterJ),
               k + 1, nk, nj, ni, off, afterI, afterJ)

\* lines 299-316
XDerivatives(st, nx, ny, nz) ==
    LoopK([st EXCEPT !.param_i = 0], 0, nz, ny, nx - 1, 1, 1, 0)

\* the y nest with `param_i += nx` one level too deep
YDerivativesSlip(st, nx, ny, nz) ==
    LoopK([st EXCEPT !.param_i = 0], 0, nz, ny - 1, nx, nx, nx, 0)

\* lines 318-335
YDerivatives(st, nx, ny, nz) ==
    LoopK([st EXCEPT !.param_i = 0], 0, nz, ny - 1, nx, nx, 0, nx)

\* lines 337-352
ZDerivatives(st, nx, ny, nz) ==
    LoopK([st EXCEPT !.param_i = 0], 0, nz - 1, ny, nx, nx * ny, 0, 0)

\* the builder on a mesh shape (nz, ny, nx)
FirstDeriv(shape) ==
    LET nz == shape[1]
        ny == shape[2]
        nx == shape[3]
        st0 == [first_deriv |-> Zeros(DerivNum(nx, ny, nz), nx * ny * nz),
                deriv_i |-> 0, param_i |-> 0, outcome |-> "ok"]
    IN  ZDerivatives(YDerivatives(XDerivatives(st0, nx, ny, nz), nx, ny, nz), nx, ny, nz)

BuildFirstDeriv(mesh) ==
    IF mesh = None
    THEN [outcome |-> "AssertionError", ret |-> None]
    ELSE LET built(r) == [outcome |-> r.outcome,
                           ret |-> IF r.outcome = "ok" THEN Some(r.first_deriv) ELSE None]
         IN  built(FirstDeriv(Get(mesh).shape))

(***************************************************************************)
(* fill_mesh(estimate, mesh): the loop over zip(estimate, mesh.ravel()),   *)
(* which ends with the shorter of the two; p is the 1-based position.      *)
(***************************************************************************)
RECURSIVE FillFrom(_, _, _)
FillFrom(cells, estimate, p) ==
    IF p > Min(Len(estimate), Len(cells)) THEN cells
    ELSE FillFrom([cells EXCEPT ![p].value = estimate[p]], estimate, p + 1)

\* the call as a whole: it returns None and raises nothing
FillMesh(estimate, mesh) ==
    [outcome |-> "ok", mesh |-> [mesh EXCEPT !.cells = FillFrom(@, estimate, 1)]]

(***************************************************************************)
(* clear and solve.                                                        *)
(***************************************************************************)
\* clear() without line 69, and without line 72
ClearedKeepingJacobian ==
    [jac |-> _jacobian, mesh |-> None, data |-> None, data_vector |-> None]

ClearedKeepingVector ==
    [jac |-> None, mesh |-> None, data |-> None, data_vector |-> _data_vector]

\* the four globals after clear()
Cleared == [jac |-> None, mesh |-> None, data |-> None, data_vector |-> None]

\* solvers.lm, as far as the session is concerned: the solver starts by
\* predicting the data of the initial estimate through the callbacks solve
\* installs, which builds or reuses the cached Jacobian
Lm(jac, mesh, data, initial) == CalcAdjustment(jac, mesh, data, initial, FALSE)

\* initial = 10**(-7)*numpy.ones(mesh.size), in units of 10**(-7)
DefaultInitial(mesh) == [i \in 1..MeshSize(mesh) |-> 1]

\* a key check that looks at the first key only
ValidFirstKey(data) == Len(data.keys) = 0 \/ data.keys[1] \in FieldSet

\* the key check of lines 412-414
ValidKeys(data) == \A i \in 1..Len(data.keys) : data.keys[i] \in FieldSet

\* solve(data, mesh, initial) on the session (jac, mesh0, data0, data_vector)
Solve(jac, mesh0, data0, data_vector, data, mesh, initial) ==
    LET start == IF initial = None THEN DefaultInitial(mesh) ELSE Get(initial)
        solved(e, l) == [outcome |-> l.outcome, jac |-> l.jac, mesh |-> Some(mesh),
                         data |-> Some(data), data_vector |-> Some(e.vec),
                         calls |-> l.calls]
        bound(e) ==
            IF e.outcome # "ok"
            THEN [outcome |-> e.outcome, jac |-> jac, mesh |-> Some(mesh),
                  data |-> Some(data), data_vector |-> data_vector, calls |-> 0]
            ELSE solved(e, Lm(jac, Some(mesh), Some(data), start))
    IN  IF ~ValidKeys(data)
        THEN [outcome |-> "AssertionError", jac |-> jac, mesh |-> mesh0, data |-> data0,
              data_vector |-> data_vector, calls |-> 0]
        ELSE bound(extract_data_vector(data, FALSE))

(***************************************************************************)
(* Inputs of the session specification.                                    *)
(***************************************************************************)
\* the grids of one survey share their stations: n points per component
SurveyData(n) ==
    ObservationSets({"gz", "gxx"}, 2, {n}, TRUE)
        \cup ObservationSets({"gz", "foo"}, 2, {n}, FALSE)

SessionData == SurveyData(npts)

SessionMeshes == {PrismMesh(1, 1, 2), PrismMesh(1, 2, 2)}

\* estimates of n parameters: unit density in the first or in the last cell
EstimatesOf(n) == {[i \in 1..n |-> IF i = p THEN 1 ELSE 0] : p \in {1, n}}

Estimates == UNION {EstimatesOf(MeshSize(m)) : m \in SessionMeshes}

\* the mapping the session holds, which the caller may pass again
BoundData == IF _data = None THEN {} ELSE {Get(_data)}

Idle == [stage |-> "idle"]

\* last is the call the caller has just made: the operation, its arguments
\* (with the keys of the mapping passed to it, if any), what it returned or
\* raised, the number of kernel invocations it made, and whether the cache was
\* filled and the session bound when it started; NoCall when the caller holds
\* no result
NoArgs == [data |-> None, mesh |-> None, estimate |-> None, grid |-> FALSE]

NoCall ==
    [op |-> "none", args |-> NoArgs, keys |-> <<>>, outcome |-> "ok", ret |-> None,
     calls |-> 0, cached |-> FALSE, bound |-> FALSE]

Call(op, args, outcome, ret, calls) ==
    [op |-> op, args |-> args,
     keys |-> IF args.data = None THEN <<>> ELSE Get(args.data).keys,
     outcome |-> outcome, ret |-> ret, calls |-> calls,
     cached |-> _jacobian # None, bound |-> _mesh # None /\ _data # None]

Init ==
    /\ _jacobian = None
    /\ _mesh = None
    /\ _data = None
    /\ _data_vector = None
    /\ last = NoCall
    /\ npts \in 1..MaxPts
    /\ dv = Idle
    /\ fd = Idle
    /\ fm = Idle
    /\ lm = Idle

clear ==
    /\ last = NoCall
    /\ _jacobian' = Cleared.jac
    /\ _mesh' = Cleared.mesh
    /\ _data' = Cleared.data
    /\ _data_vector' = Cleared.data_vector
    /\ last' = Call("clear", NoArgs, "ok", None, 0)
    /\ UNCHANGED <<npts, dv, fd, fm, lm>>

solve ==
    /\ last = NoCall
    /\ \E data \in SessionData \cup BoundData,
       mesh \in SessionMeshes,
       initial \in {None} \cup {Some(e) : e \in Estimates} :
        \E r \in {Solve(_jacobian, _mesh, _data, _data_vector, data, mesh, initial)} :
            /\ _jacobian' = r.jac
            /\ _mesh' = r.mesh
            /\ _data' = r.data
            /\ _data_vector' = r.data_vector
            /\ last' = Call("solve",
                             [NoArgs EXCEPT !.data = Some(data), !.mesh = Some(mesh),
                                            !.estimate = initial],
                             r.outcome, None, r.calls)
            /\ UNCHANGED <<npts, dv, fd, fm, lm>>

calc_adjustment ==
    /\ last = NoCall
    /\ \E estimate \in Estimates, grid \in BOOLEAN :
        \E r \in {CalcAdjustment(_jacobian, _mesh, _data, estimate, grid)} :
            /\ _jacobian' = r.jac
            /\ _data' = r.data
            /\ last' = Call("calc_adjustment",
                             [NoArgs EXCEPT !.estimate = Some(estimate), !.grid = grid],
                             r.outcome, r.ret, r.calls)
            /\ UNCHANGED <<_mesh, _data_vector, npts, dv, fd, fm, lm>>

residuals ==
    /\ last = NoCall
    /\ \E arg \in SessionData \cup BoundData,
       estimate \in Estimates :
        \E r \in {Residuals(_jacobian, _mesh, _data, _data_vector, arg, estimate)} :
            /\ _jacobian' = r.jac
            /\ last' = Call("residuals",
                             [NoArgs EXCEPT !.data = Some(arg), !.estimate = Some(estimate)],
                             r.outcome, r.ret, r.calls)
            /\ UNCHANGED <<_mesh, _data, _data_vector, npts, dv, fd, fm, lm>>

_build_pgrav3d_jacobian ==
    /\ last = NoCall
    /\ \E r \in {BuildJacobian(_jacobian, _mesh, _data)} :
        /\ _jacobian' = r.jac
        /\ last' = Call("_build_pgrav3d_jacobian", NoArgs, r.outcome, r.ret, r.calls)
        /\ UNCHANGED <<_mesh, _data, _data_vector, npts, dv, fd, fm, lm>>

_build_pgrav3d_first_deriv ==
    /\ last = NoCall
    /\ \E r \in {BuildFirstDeriv(_mesh)} :
        /\ last' = Call("_build_pgrav3d_first_deriv", NoArgs, r.outcome, r.ret, 0)
        /\ UNCHANGED <<session, npts, dv, fd, fm, lm>>

\* the caller is done with the result of its last call
discard ==
    /\ last # NoCall
    /\ last' = NoCall
    /\ UNCHANGED <<session, npts, dv, fd, fm, lm>>

Next ==
    \/ discard
    \/ clear
    \/ solve
    \/ calc_adjustment
    \/ residuals
    \/ _build_pgrav3d_jacobian
    \/ _build_pgrav3d_first_deriv

Spec == Init /\ [][Next]_vars

(***************************************************************************)
(* The data-vector assembler on its own: a well-formed observation set x   *)
(* is flattened by extract_data_vector, and the flat vector is cut back    *)
(* into per-component grids by the grid-mode slicing of calc_adjustment.   *)
(***************************************************************************)
\* the inputs are the well-formed observation sets of up to MaxVecComps of the
\* seven components, listed in any order, each with 1..MaxVecPts points and as
\* many observed values
InitData ==
    /\ _jacobian = None
    /\ _mesh = None
    /\ _data = None
    /\ _data_vector = None
    /\ last = NoCall
    /\ npts = 1
    /\ \E K \in SUBSET FieldSet :
        /\ Cardinality(K) <= MaxVecComps
        /\ \E ks \in KeyOrders(K), n \in [K -> 1..MaxVecPts] :
              dv = [stage |-> "input", x |-> ObservationSet(ks, n, [k \in K |-> TRUE])]
    /\ fd = Idle
    /\ fm = Idle
    /\ lm = Idle

Flatten ==
    /\ dv.stage = "input"
    /\ \E inplace \in BOOLEAN :
        \E r \in {extract_data_vector(dv.x, inplace)} :
            dv' = [stage |-> "flat", x |-> dv.x, inplace |-> inplace, data |-> r.data,
                   vec |-> r.vec, outcome |-> r.outcome]
    /\ UNCHANGED <<session, last, npts, fd, fm, lm>>

Unflatten ==
    /\ dv.stage = "flat"
    /\ dv.outcome = "ok"
    /\ dv' = [stage |-> "grids", x |-> dv.x, inplace |-> dv.inplace, vec |-> dv.vec,
              grids |-> AdjustedGrid(dv.data, dv.vec)]
    /\ UNCHANGED <<session, last, npts, fd, fm, lm>>

NextData == Flatten \/ Unflatten

SpecData == InitData /\ [][NextData]_vars

(***************************************************************************)
(* The first-derivative builder on its own, for every mesh shape.          *)
(***************************************************************************)
InitDeriv ==
    /\ _jacobian = None
    /\ _mesh = None
    /\ _data = None
    /\ _data_vector = None
    /\ last = NoCall
    /\ npts = 1
    /\ dv = Idle
    /\ fd \in {[stage |-> "input", shape |-> <<nz, ny, nx>>] :
                nz \in 1..MaxDim, ny \in 1..MaxDim, nx \in 1..MaxDim}
    /\ fm = Idle
    /\ lm = Idle

BuildOperator ==
    /\ fd.stage = "input"
    /\ fd' = [stage |-> "built", shape |-> fd.shape, result |-> FirstDeriv(fd.shape)]
    /\ UNCHANGED <<session, last, npts, dv, fm, lm>>

NextDeriv == BuildOperator

SpecDeriv == InitDeriv /\ [][NextDeriv]_vars

(***************************************************************************)
(* fill_mesh on its own: a mesh as constructed and an estimate of any      *)
(* length up to one more than the number of cells.                         *)
(***************************************************************************)
FillEstimates(n) == {[p \in 1..len |-> base + p] : len \in 0..(n + 1), base \in {10, 20}}

InitFill ==
    /\ _jacobian = None
    /\ _mesh = None
    /\ _data = None
    /\ _data_vector = None
    /\ last = NoCall
    /\ npts = 1
    /\ dv = Idle
    /\ fd = Idle
    /\ \E nz \in 1..MaxFillDim, ny \in 1..MaxFillDim, nx \in 1..MaxFillDim :
         \E estimate \in FillEstimates(nx * ny * nz) :
            fm = [stage |-> "input", mesh |-> PrismMesh(nz, ny, nx), estimate |-> estimate]
    /\ lm = Idle

fill_mesh ==
    /\ fm.stage = "input"
    /\ \E r \in {FillMesh(fm.estimate, fm.mesh)} :
         fm' = [stage |-> "filled", before |-> fm.mesh, estimate |-> fm.estimate,
                mesh |-> r.mesh, outcome |-> r.outcome]
    /\ UNCHANGED <<session, last, npts, dv, fd, lm>>

NextFill == fill_mesh

SpecFill == InitFill /\ [][NextFill]_vars

(***************************************************************************)
(* The solver loop solve() drives (solvers.lm, called at lines 450-451     *)
(* with lm_start, lm_step, max_steps and max_it).  The goal function of an  *)
(* estimate is a natural number that the numerics decide; estimates are     *)
(* named by the attempt that produced them (0 is the initial estimate).     *)
(* The Marquardt parameter is lm_start * lm_step^marq.                      *)
(***************************************************************************)
Terminal == {"CONVERGED", "MAX_ITERATIONS", "STEP_EXHAUSTED"}

\* the relative improvement (prev - new) / prev is below the tolerance 1/TolDen
TolDen == 2

Converged(prev, new) == (prev - new) * TolDen < prev

\* an acceptance test that lets every trial through
ImprovesAlways(trial, goal) == TRUE

\* step 6: the trial estimate's goal function is lower than the current one
Improves(trial, goal) == trial < goal

\* a retry budget that is noticed one retry late
ExhaustedLate(step, max_steps) == step > max_steps

\* step 7: the retries of this outer iteration are used up
Exhausted(step, max_steps) == step >= max_steps

Goals == 0..MaxGoal

InitLm ==
    /\ _jacobian = None
    /\ _mesh = None
    /\ _data = None
    /\ _data_vector = None
    /\ last = NoCall
    /\ npts = 1
    /\ dv = Idle
    /\ fd = Idle
    /\ fm = Idle
    /\ \E max_it \in 1..MaxIt, max_steps \in 1..MaxSteps, goal \in Goals :
         lm = [state |-> "INITIALIZED", max_it |-> max_it, max_steps |-> max_steps,
               goal |-> goal, estimate |-> 0, it |-> 0, step |-> 0, tries |-> 0,
               marq |-> 0, goal_history |-> <<>>, accepted |-> <<>>, ret |-> None]

\* what the solver returns when it ends in a terminal state
Returned(state, estimate, goals) ==
    IF state \in Terminal THEN Some([estimate |-> estimate, goals |-> goals]) ELSE None

\* steps 1-4 for the initial estimate; a goal function of 0 cannot be improved
LmStart ==
    /\ lm.state = "INITIALIZED"
    /\ \E state \in {IF lm.goal = 0 THEN "CONVERGED" ELSE "ITERATING"} :
         lm' = [lm EXCEPT !.state = state,
                          !.goal_history = <<lm.goal>>,
                          !.accepted = <<lm.estimate>>,
                          !.ret = Returned(state, lm.estimate, <<lm.goal>>)]
    /\ UNCHANGED <<session, last, npts, dv, fd, fm>>

\* steps 5, 6 and 8: a trial that improves is accepted
LmAccept ==
    /\ lm.state = "ITERATING"
    /\ \E trial \in Goals :
         /\ Improves(trial, lm.goal)
         /\ \E state \in {IF Converged(lm.goal, trial) THEN "CONVERGED"
                           ELSE IF lm.it + 1 >= lm.max_it THEN "MAX_ITERATIONS"
                           ELSE "ITERATING"} :
              lm' = [lm EXCEPT !.state = state,
                               !.goal = trial,
                               !.estimate = lm.tries + 1,
                               !.tries = @ + 1,
                               !.it = @ + 1,
                               !.step = 0,
                               !.marq = @ - 1,
                               !.goal_history = Append(@, trial),
                               !.accepted = Append(@, lm.tries + 1),
                               !.ret = Returned(state, lm.tries + 1,
                                                Append(lm.goal_history, trial))]
    /\ UNCHANGED <<session, last, npts, dv, fd, fm>>

\* steps 5 and 7: a trial that does not improve is dropped
LmReject ==
    /\ lm.state = "ITERATING"
    /\ \E trial \in Goals :
         /\ ~Improves(trial, lm.goal)
         /\ \E state \in {IF Exhausted(lm.step + 1, lm.max_steps) THEN "STEP_EXHAUSTED"
                           ELSE "ITERATING"} :
              lm' = [lm EXCEPT !.state = state,
                               !.tries = @ + 1,
                               !.step = @ + 1,
                               !.marq = @ + 1,
                               !.ret = Returned(state, lm.estimate, lm.goal_history)]
    /\ UNCHANGED <<session, last, npts, dv, fd, fm>>

NextLm == LmStart \/ LmAccept \/ LmReject

SpecLm == InitLm /\ [][NextLm]_vars

\* the loop runs on its own thread of control until it ends
SpecLmFair == SpecLm /\ WF_vars(NextLm)

(***************************************************************************)
(* Properties.                                                             *)
(***************************************************************************)
UsesJacobian == {"calc_adjustment", "residuals", "_build_pgrav3d_jacobian"}

NeedsSession == UsesJacobian \cup {"_build_pgrav3d_first_deriv"}

\* the components of a mapping, whatever its key order
Present(data) == {f \in FieldSet : f \in DOMAIN data.grid}

Count(data, f) == Len(data.grid[f].x)

\* observations of the components that precede canonical position fi
Offset(data, fi) ==
    SumSeq([i \in 1..(fi - 1) |->
              IF Fields[i] \in Present(data) THEN Count(data, Fields[i]) ELSE 0])

TotalObservations(data) == Offset(data, NumFields + 1)

\* C1: while the cache is filled, calc_adjustment, residuals and the Jacobian
\* builder leave the cached matrix as it is, invoke the forward kernel no more,
\* and the builder returns the cached matrix.
C1_AssembledOnce ==
    [][(_jacobian # None /\ last'.op \in UsesJacobian)
         => /\ _jacobian' = _jacobian
            /\ last'.calls = 0
            /\ (last'.op = "_build_pgrav3d_jacobian" => last'.ret = _jacobian)]_vars

C1_Witness ==
    /\ last.op = "_build_pgrav3d_jacobian"
    /\ last.cached
    /\ last.outcome = "ok"
    /\ last.ret = _jacobian
    /\ Len(Get(_jacobian)) >= 2

\* C2: a solve() that binds a mesh or a (non-empty) mapping other than the bound
\* one while a Jacobian is cached does not return normally.
C2_StaleCacheRejected ==
    [][(/\ _jacobian # None
        /\ _mesh # None
        /\ _data # None
        /\ last'.op = "solve"
        /\ last'.keys # <<>>
        /\ (_mesh' # _mesh \/ _data' # _data))
         => last'.outcome # "ok"]_vars

\* C3: clear() leaves the mesh, the mapping, the data vector and the Jacobian
\* absent, and whenever a call then fills the empty cache, the matrix is the one
\* assembled, with the kernel, from the mesh and mapping bound at that moment.
C3_ClearDiscards ==
    [][/\ (last'.op = "clear" => session' = <<None, None, None, None>>)
       /\ ((_jacobian = None /\ _jacobian' # None)
             => /\ _jacobian' = Some(AssembleJacobian(Get(_mesh'), Get(_data')))
                /\ last'.calls = Len(Get(_jacobian')) * MeshSize(Get(_mesh')))]_vars

C3_Witness ==
    /\ last.op = "clear"
    /\ last.cached
    /\ last.bound
    /\ session = <<None, None, None, None>>

\* C4: cutting the flattened vector of a well-formed observation set back into
\* grids gives every component its own values in their order (and, when the
\* values were not removed from the input, the input itself).
C4_RoundTrip ==
    dv.stage = "grids"
      => /\ dv.grids.keys = dv.x.keys
         /\ \A k \in Present(dv.x) : dv.grids.grid[k].value = dv.x.grid[k].value
         /\ dv.grids = dv.x

C4_Witness ==
    /\ dv.stage = "grids"
    /\ Len(dv.x.keys) = 3
    /\ dv.x.keys[1] = "gzz"
    /\ dv.x.keys[3] = "gz"
    /\ Count(dv.x, "gz") = 2
    /\ Count(dv.x, "gzz") = 1
    /\ ~dv.inplace

\* C5: the extracted vector holds, for every present component, its values at
\* the positions that follow the values of the present components before it in
\* canonical order; its length is the total number of values; and the mapping
\* with its keys listed in the opposite order gives the same vector.
C5_CanonicalOrder ==
    dv.stage = "flat"
      => /\ dv.outcome = "ok"
         /\ Len(dv.vec) = TotalObservations(dv.x)
         /\ \A f \in Present(dv.x) : \A i \in 1..Count(dv.x, f) :
               dv.vec[Offset(dv.x, FieldIndex(f)) + i] = dv.x.grid[f].value[i]
         /\ dv.vec =
               extract_data_vector(
                 [dv.x EXCEPT !.keys = [i \in 1..Len(@) |-> @[Len(@) + 1 - i]]],
                 dv.inplace).vec

C5_Witness ==
    /\ dv.stage = "flat"
    /\ dv.x.keys = <<"gyy", "gxx", "gz">>
    /\ Len(dv.vec) = 4

\* C6: a matrix put into the empty cache has one row per observation of the
\* bound mapping and one column per cell of the bound mesh; the rows of a
\* component come after those of the components before it in canonical order,
\* in the order of its coordinate arrays, and the entry in the column of cell
\* (i, j, k), which is column i + j*nx + k*nx*ny, is the component's kernel for
\* unit density on that cell at the row's point.
IsJacobianOf(J, mesh, data) ==
    LET nz == mesh.shape[1]
        ny == mesh.shape[2]
        nx == mesh.shape[3]
    IN  /\ Len(J) = TotalObservations(data)
        /\ \A r \in 1..Len(J) : Len(J[r]) = nx * ny * nz
        /\ \A f \in Present(data) : \A p \in 1..Count(data, f) :
             \A i \in 0..(nx - 1), j \in 0..(ny - 1), k \in 0..(nz - 1) :
               J[Offset(data, FieldIndex(f)) + p][i + j * nx + k * nx * ny + 1] =
                 Kernel(f, 1, mesh.cells[i + j * nx + k * nx * ny + 1],
                        data.grid[f].x[p], data.grid[f].y[p], data.grid[f].z[p])

C6_JacobianLayout ==
    [][(_jacobian = None /\ _jacobian' # None)
         => IsJacobianOf(Get(_jacobian'), Get(_mesh'), Get(_data'))]_vars

C6_Witness ==
    /\ last.op = "_build_pgrav3d_jacobian"
    /\ ~last.cached
    /\ last.outcome = "ok"
    /\ Len(Get(_jacobian)) = 4
    /\ Len(Get(_jacobian)[1]) = 4
    /\ Get(_data).keys = <<"gxx", "gz">>

\* the operator a finished build returned, and the shape it was built for
Built == fd.result.first_deriv

Nz == fd.shape[1]

Ny == fd.shape[2]

Nx == fd.shape[3]

\* 0-based columns of a row that hold the value v
Columns(row, v) == {c \in 0..(Len(row) - 1) : row[c + 1] = v}

\* the pair (p, q) of a row: p holds +1 and q holds -1
RowPair(row) ==
    <<CHOOSE c \in Columns(row, 1) : TRUE, CHOOSE c \in Columns(row, -1) : TRUE>>

\* the adjacent-cell pairs of the mesh along each axis, p = i + j*nx + k*nx*ny
XPairs ==
    {<<i + j * Nx + k * Nx * Ny, i + j * Nx + k * Nx * Ny + 1>> :
       i \in 0..(Nx - 2), j \in 0..(Ny - 1), k \in 0..(Nz - 1)}

YPairs ==
    {<<i + j * Nx + k * Nx * Ny, i + j * Nx + k * Nx * Ny + Nx>> :
       i \in 0..(Nx - 1), j \in 0..(Ny - 2), k \in 0..(Nz - 1)}

ZPairs ==
    {<<i + j * Nx + k * Nx * Ny, i + j * Nx + k * Nx * Ny + Nx * Ny>> :
       i \in 0..(Nx - 1), j \in 0..(Ny - 1), k \in 0..(Nz - 2)}

\* C7: the builder ends without an index error; the operator has
\* (nx-1)*ny*nz + nx*(ny-1)*nz + nx*ny*(nz-1) rows of nx*ny*nz columns, the
\* loops have advanced the row counter exactly to the row count, and every row
\* has been written.
C7_RowCount ==
    fd.stage = "built"
      => /\ fd.result.outcome = "ok"
         /\ Len(Built) = (Nx - 1) * Ny * Nz + Nx * (Ny - 1) * Nz + Nx * Ny * (Nz - 1)
         /\ \A r \in 1..Len(Built) : Len(Built[r]) = Nx * Ny * Nz
         /\ fd.result.deriv_i = Len(Built)
         /\ \A r \in 1..Len(Built) : \E c \in 1..Len(Built[r]) : Built[r][c] # 0

C7_Witness ==
    /\ fd.stage = "built"
    /\ fd.shape = <<2, 3, 4>>
    /\ Len(Built) = 46
    /\ fd.result.deriv_i = 46

\* C8: every row holds one +1, one -1 and zeros elsewhere; the rows of the
\* first block are exactly the x-adjacent pairs (p, p+1), those of the second
\* the y-adjacent pairs (p, p+nx), those of the third the z-adjacent pairs
\* (p, p+nx*ny), each pair in one row only.
C8_RowsArePairs ==
    fd.stage = "built"
      => LET nxp == Cardinality(XPairs)
             nyp == Cardinality(YPairs)
             nzp == Cardinality(ZPairs)
             pairs == [r \in 1..Len(Built) |-> RowPair(Built[r])]
         IN  /\ fd.result.outcome = "ok"
             /\ \A r \in 1..Len(Built) :
                   /\ Cardinality(Columns(Built[r], 1)) = 1
                   /\ Cardinality(Columns(Built[r], -1)) = 1
                   /\ Cardinality(Columns(Built[r], 0)) = Len(Built[r]) - 2
             /\ Len(Built) = nxp + nyp + nzp
             /\ {pairs[r] : r \in 1..nxp} = XPairs
             /\ {pairs[r] : r \in (nxp + 1)..(nxp + nyp)} = YPairs
             /\ {pairs[r] : r \in (nxp + nyp + 1)..(nxp + nyp + nzp)} = ZPairs

C8_Witness ==
    /\ fd.stage = "built"
    /\ fd.shape = <<3, 2, 2>>
    /\ RowPair(Built[1]) = <<0, 1>>
    /\ RowPair(Built[7]) = <<0, 2>>
    /\ RowPair(Built[13]) = <<0, 4>>

\* C9: a solve() given a mapping with a key that is none of the seven
\* components raises the assertion error of the key check, invokes no kernel
\* and leaves the four globals as they were.
C9_InvalidKeyRejected ==
    [][(last'.op = "solve" /\ \E i \in 1..Len(last'.keys) : last'.keys[i] \notin FieldSet)
         => /\ last'.outcome = "AssertionError"
            /\ last'.calls = 0
            /\ session' = session]_vars

C9_Witness ==
    /\ last.op = "solve"
    /\ last.keys = <<"gz", "foo">>
    /\ last.outcome = "AssertionError"
    /\ last.cached
    /\ _data_vector # None

\* C10: calc_adjustment, residuals and the two builders, called while no mesh or
\* no mapping is bound, raise the assertion error and the cache stays empty.
C10_UnboundRejected ==
    [][((_mesh = None \/ _data = None) /\ last'.op \in NeedsSession)
         => /\ last'.outcome = "AssertionError"
            /\ _jacobian' = None]_vars

C10_Witness ==
    /\ last.op = "calc_adjustment"
    /\ ~last.bound
    /\ last.outcome = "AssertionError"
    /\ _jacobian = None

\* the arguments of the call the caller has just made
ArgData == Get(last.args.data)

ArgEstimate == Get(last.args.estimate)

\* every component the mapping lists has observed values / none has
CarriesValues(data) ==
    /\ data.keys # <<>>
    /\ \A i \in 1..Len(data.keys) : HasValue(data.grid[data.keys[i]])

CarriesNoValues(data) ==
    /\ data.keys # <<>>
    /\ \A i \in 1..Len(data.keys) : ~HasValue(data.grid[data.keys[i]])

\* the observed values of a mapping (every component of which has them) in
\* canonical order, from canonical position fi on
RECURSIVE ObservedFrom(_, _)
ObservedFrom(data, fi) ==
    IF fi > NumFields THEN <<>>
    ELSE (IF Fields[fi] \in Present(data) THEN data.grid[Fields[fi]].value ELSE <<>>)
           \o ObservedFrom(data, fi + 1)

Observed(data) == ObservedFrom(data, 1)

\* the element-wise difference of two vectors of one length
Minus(a, b) == [i \in 1..Len(a) |-> a[i] - b[i]]

\* the product of a matrix with a vector
Product(J, e) == [r \in 1..Len(J) |-> SumSeq([c \in 1..Len(e) |-> J[r][c] * e[c]])]

\* C11: a residuals() call on a bound session, with an estimate of one entry
\* per column of the cached matrix and a non-empty mapping of as many points as
\* the matrix has rows, returns observed minus predicted, where observed is
\* the flattening of the mapping when its components carry observed values and
\* the cached data vector (when it has one entry per row) otherwise; it raises the assertion error when the
\* mapping does not carry values and no data vector is cached.
C11_ResidualsFallback ==
    [][(/\ last'.op = "residuals"
        /\ _mesh # None
        /\ _data # None
        /\ last'.keys # <<>>
        /\ _jacobian' # None
        /\ Get(_jacobian') # <<>>
        /\ Len(Get(_jacobian')[1]) = Len(ArgEstimate')
        /\ Len(Get(_jacobian')) = TotalObservations(ArgData'))
         => LET predicted == Product(Get(_jacobian'), ArgEstimate')
            IN  IF CarriesValues(ArgData')
                THEN /\ last'.outcome = "ok"
                     /\ last'.ret = Some(Minus(Observed(ArgData'), predicted))
                ELSE IF _data_vector = None
                THEN last'.outcome = "AssertionError"
                ELSE Len(Get(_data_vector)) = Len(predicted)
                       => /\ last'.outcome = "ok"
                          /\ last'.ret = Some(Minus(Get(_data_vector), predicted))]_vars

ArgMesh == Get(last.args.mesh)

\* C12: a solve() given a non-empty mapping and an initial estimate whose length is not the number of
\* cells of the mesh does not return normally; when the mapping is valid (keys
\* among the seven components, observed values present) the error is the shape
\* error of the first prediction.
C12_DimensionMismatch ==
    [][(/\ last'.op = "solve"
        /\ last'.keys # <<>>
        /\ last'.args.estimate # None
        /\ Len(ArgEstimate') # MeshSize(ArgMesh'))
         => /\ last'.outcome # "ok"
            /\ (ValidKeys(ArgData') /\ CarriesValues(ArgData'))
                  => last'.outcome = "ValueError"]_vars

\* C13: a solve() given an empty mapping does not return normally (the solver
\* does not get past its first prediction), and a residuals() given an empty
\* mapping returns no vector.
C13_ComponentRequired ==
    [][(last'.op \in {"solve", "residuals"} /\ last'.args.data # None /\ last'.keys = <<>>)
         => /\ last'.outcome # "ok"
            /\ last'.ret = None]_vars

\* C14: an extraction that was not asked to work in place leaves the mapping
\* as it was; one that was asked to leaves the keys and, for every component,
\* the coordinate arrays, and nothing else; and the vector returned is the
\* one the other mode returns for the same mapping.
C14_InplaceOnRequest ==
    dv.stage = "flat"
      => /\ dv.outcome = "ok"
         /\ ~dv.inplace => dv.data = dv.x
         /\ dv.inplace =>
               /\ dv.data.keys = dv.x.keys
               /\ DOMAIN dv.data.grid = DOMAIN dv.x.grid
               /\ \A k \in DOMAIN dv.x.grid :
                     /\ DOMAIN dv.data.grid[k] = {"x", "y", "z"}
                     /\ dv.data.grid[k].x = dv.x.grid[k].x
                     /\ dv.data.grid[k].y = dv.x.grid[k].y
                     /\ dv.data.grid[k].z = dv.x.grid[k].z
         /\ dv.vec = extract_data_vector(dv.x, ~dv.inplace).vec

C14_Witness ==
    /\ dv.stage = "flat"
    /\ dv.inplace
    /\ dv.x.keys = <<"gzz", "gz">>
    /\ dv.x.grid["gz"].value = <<11, 12>>
    /\ ~HasValue(dv.data.grid["gz"])
    /\ ~HasValue(dv.data.grid["gzz"])
    /\ Len(dv.vec) = 3

\* the scenario: a single gz observation bound with the 2x2x1 mesh, the cache
\* holding the 1x4 row of that pair, and the estimate [1, 0, 0, 0]
SingleGzOn2x2x1 ==
    /\ _mesh # None
    /\ _data # None
    /\ Get(_mesh).shape = <<1, 2, 2>>
    /\ Get(_data).keys = <<"gz">>
    /\ Len(Get(_data).grid["gz"].x) = 1

\* C15: a calc_adjustment(estimate) on a bound session, with an estimate of
\* one entry per column of the cached matrix, returns the product of the cached
\* matrix with the estimate and leaves a matrix cached before the call as it
\* was; with a single gz observation bound with the 2x2x1 mesh and the matrix
\* of that pair cached, calc_adjustment([1, 0, 0, 0]) is the gz kernel of cell
\* (0, 0, 0) with unit density at the observation point.
C15_AdjustmentIsProduct ==
    [][(/\ last'.op = "calc_adjustment"
        /\ ~last'.args.grid
        /\ _mesh # None
        /\ _data # None
        /\ _jacobian' # None
        /\ Get(_jacobian') # <<>>
        /\ Len(Get(_jacobian')[1]) = Len(ArgEstimate'))
         => /\ last'.outcome = "ok"
            /\ last'.ret = Some(Product(Get(_jacobian'), ArgEstimate'))
            /\ _jacobian # None => _jacobian' = _jacobian
            /\ (/\ SingleGzOn2x2x1
                /\ IsJacobianOf(Get(_jacobian'), Get(_mesh), Get(_data))
                /\ ArgEstimate' = <<1, 0, 0, 0>>)
                  => last'.ret =
                       Some(<<Kernel("gz", 1, Cell(0, 0, 0),
                                     Get(_data).grid["gz"].x[1],
                                     Get(_data).grid["gz"].y[1],
                                     Get(_data).grid["gz"].z[1])>>)]_vars

C15_Witness ==
    /\ last.op = "calc_adjustment"
    /\ last.cached
    /\ ~last.args.grid
    /\ SingleGzOn2x2x1
    /\ ArgEstimate = <<1, 0, 0, 0>>
    /\ last.outcome = "ok"
    /\ last.ret = Some(<<11>>)
    /\ _jacobian = Some(<<<<11, 111, 411, 511>>>>)

\* the cell of a mesh with lower corner (i, j, k)
CellAt(mesh, i, j, k) ==
    CHOOSE c \in {mesh.cells[p] : p \in 1..Len(mesh.cells)} :
        c.x1 = i /\ c.y1 = j /\ c.z1 = k

\* C16: after fill_mesh the shape and the six bounds of every cell are as
\* before; with an estimate of one entry per cell, the value of cell (i, j, k)
\* is estimate[i + j*nx + k*nx*ny]; an estimate of any other length is rejected.
C16_FillMesh ==
    fm.stage = "filled"
      => LET nz == fm.before.shape[1]
             ny == fm.before.shape[2]
             nx == fm.before.shape[3]
         IN  /\ fm.mesh.shape = fm.before.shape
             /\ Len(fm.mesh.cells) = Len(fm.before.cells)
             /\ \A p \in 1..Len(fm.mesh.cells) :
                   \A b \in {"x1", "x2", "y1", "y2", "z1", "z2"} :
                      fm.mesh.cells[p][b] = fm.before.cells[p][b]
             /\ IF Len(fm.estimate) = nx * ny * nz
                THEN /\ fm.outcome = "ok"
                     /\ \A i \in 0..(nx - 1), j \in 0..(ny - 1), k \in 0..(nz - 1) :
                           CellAt(fm.mesh, i, j, k).value =
                             fm.estimate[i + j * nx + k * nx * ny + 1]
                ELSE fm.outcome # "ok"

\* C17: every value recorded in goal_history is at most the one recorded
\* before it, and a step that records a value records one lower than the
\* goal function of the estimate it replaces.
C17_GoalsNonIncreasing ==
    [][/\ \A i \in 2..Len(lm'.goal_history) :
            lm'.goal_history[i] <= lm'.goal_history[i - 1]
       /\ (lm.state = "ITERATING" /\ lm'.goal_history # lm.goal_history)
             => /\ Len(lm'.goal_history) = Len(lm.goal_history) + 1
                /\ lm'.goal_history[Len(lm'.goal_history)] < lm.goal
                /\ lm'.goal = lm'.goal_history[Len(lm'.goal_history)]]_vars

C17_Witness ==
    /\ lm.state = "MAX_ITERATIONS"
    /\ lm.goal_history = <<8, 4, 2, 1>>
    /\ lm.tries = 5

\* the position of the lowest recorded goal function
Best(goals) == CHOOSE i \in 1..Len(goals) : \A j \in 1..Len(goals) : goals[i] <= goals[j]

\* C18: a run makes at most max_it outer iterations and at most max_steps
\* retries inside one outer iteration; every rejected retry multiplies the
\* Marquardt parameter by lm_step and every accepted step divides it; the run
\* is in STEP_EXHAUSTED exactly when the retries of an outer iteration are used
\* up; in a terminal state it returns the estimate of the lowest recorded goal
\* function; a terminal state is never left; and every run reaches one.
C18_Terminates ==
    /\ [](/\ lm.state \in {"INITIALIZED", "ITERATING"} \cup Terminal
          /\ lm.it <= lm.max_it
          /\ lm.step <= lm.max_steps
          /\ lm.state = "STEP_EXHAUSTED" <=> lm.step = lm.max_steps
          /\ lm.state = "MAX_ITERATIONS" => lm.it = lm.max_it
          /\ lm.state \in Terminal <=> lm.ret # None
          /\ lm.state \in Terminal
                => /\ Get(lm.ret).goals = lm.goal_history
                   /\ Get(lm.ret).estimate = lm.accepted[Best(lm.goal_history)])
    /\ [][/\ lm.state \notin Terminal
           /\ lm.state = "ITERATING"
                 => \/ lm'.step = lm.step + 1 /\ lm'.it = lm.it /\ lm'.marq = lm.marq + 1
                    \/ lm'.step = 0 /\ lm'.it = lm.it + 1 /\ lm'.marq = lm.marq - 1]_vars
    /\ <>(lm.state \in Terminal)

C18_Witness ==
    /\ lm.state = "STEP_EXHAUSTED"
    /\ lm.max_steps = 2
    /\ lm.it = 2
    /\ lm.step = 2
    /\ lm.marq = 1
    /\ Get(lm.ret).estimate = 3

\* C19: a calc_adjustment(estimate, grid=True) on a session whose bound mapping
\* carries observed values leaves the mapping bound and the observed values of
\* every component as they were.
C19_GridKeepsObserved ==
    [][(/\ last'.op = "calc_adjustment"
        /\ last'.args.grid
        /\ _data # None
        /\ CarriesValues(Get(_data)))
         => /\ _data' # None
            /\ Get(_data').keys = Get(_data).keys
            /\ \A k \in DOMAIN Get(_data).grid :
                  Get(_data').grid[k].value = Get(_data).grid[k].value]_vars

\* the cached data vector is absent or is the flattening of the bound mapping
VectorOfBoundData(data, data_vector) ==
    \/ data_vector = None
    \/ /\ data # None
       /\ \A k \in Present(Get(data)) : HasValue(Get(data).grid[k])
       /\ Get(data_vector) = Observed(Get(data))

\* C20: a solve(), a clear(), a residuals() or a calc_adjustment() returning
\* the flat vector, called on a session whose cached data vector is the
\* flattening of the bound mapping (of at least one value), leaves a session
\* whose cached data vector is absent or the flattening of the mapping then
\* bound, whether the call returns or raises.
C20_VectorOfBoundData ==
    [][(/\ _data_vector # None
        /\ Get(_data_vector) # <<>>
        /\ VectorOfBoundData(_data, _data_vector)
        /\ \/ last'.op \in {"solve", "clear", "residuals"}
           \/ last'.op = "calc_adjustment" /\ ~last'.args.grid)
         => VectorOfBoundData(_data', _data_vector')]_vars

\* a cached matrix (of at least one row) belongs to a bound session and has
\* one row per observation point of the bound mapping and one column per cell
\* of the bound mesh
CacheShaped(jac, mesh, data) ==
    (jac # None /\ Get(jac) # <<>>)
      => /\ mesh # None
         /\ data # None
         /\ Len(Get(jac)) = TotalObservations(Get(data))
         /\ \A r \in 1..Len(Get(jac)) : Len(Get(jac)[r]) = MeshSize(Get(mesh))

\* C21: in every reachable state a cache filled with a matrix of at least one
\* row comes with a bound mesh and a bound mapping, and the cached matrix has
\* as many rows as the mapping has observation points and as many columns as
\* the mesh has cells.
C21_CacheShape == CacheShaped(_jacobian, _mesh, _data)

====
